---- MODULE Spec2Model ----
(***************************************************************************)
(* Moore automata library (ma.c, ma_additional.c): the automata, their     *)
(* packed bit buffers, the incoming/outgoing connection graph and the      *)
(* public operations, as a state machine.                                  *)
(*                                                                         *)
(* Representation.                                                         *)
(*  - An automaton pointer is an address in Aut; NULL is 0.  A freed cell  *)
(*    may be handed out again by a later malloc.                           *)
(*  - A uint64_t buffer of k blocks is the set of the indices (0 ..        *)
(*    64*k-1) of its bits that are 1, so the unused tail bits of the last  *)
(*    block are part of the value.                                         *)
(*  - A size_t is an integer x: x >= 0 stands for x, x < 0 for 2^64 + x    *)
(*    (two's complement), so + is addition modulo 2^64 and the unsigned    *)
(*    order is ULt.                                                        *)
(*  - An outgoing list is the sequence of its nodes, head first.           *)
(***************************************************************************)
EXTENDS Integers, Sequences, FiniteSets, TLC

\* ------------------------------------------------------------------ bounds
MaxAut == 2
MaxSignals == 3
MaxStart == 1
MaxWrap == 1
MaxNum == 2
MaxOOM == 1
MaxStepOut == 1
MaxHeap == 4
MaxList == 2
MaxTail == 1

\* ------------------------------------------------------- program constants
FILL_THE_BLOCK == 63
BITS_PER_BLOCK == 64

NULL == 0
Aut == 1..MaxAut

VARIABLES
    aut,     \* the heap: address -> moore_t (live or free)
    ub,      \* TRUE once the code has executed undefined behaviour
    ooms,    \* number of allocations the environment has failed so far
    pre,     \* monitor: the heap as the recorded call found it
    last     \* monitor: the recorded call (operation, arguments, result)

vars == <<aut, ub, ooms, pre, last>>

\* ----------------------------------------------------------- size_t order
ULt(a, b) == IF (a < 0) = (b < 0) THEN a < b ELSE b < 0
UGt(a, b) == ULt(b, a)
UGe(a, b) == ~ULt(a, b)

\* ------------------------------------------------------------- structures
\* incoming_t: an empty slot is the NULL pointer
NoLink == [aut |-> NULL, bit |-> 0]
incoming_t(source_aut, source_bit) == [aut |-> source_aut, bit |-> source_bit]
\* outgoing_t: one node of an outgoing list
outgoing_t(aut_getting_signals, bit_getting_signals) ==
    [aut |-> aut_getting_signals, bit |-> bit_getting_signals]

\* a cell of the heap that holds no automaton
FreeCell ==
    [live |-> FALSE, n |-> 0, m |-> 0, s |-> 0, t |-> "none", y |-> "none",
     input |-> {}, state |-> {}, output |-> {},
     incoming |-> [i \in {} |-> NoLink],
     outgoing |-> [i \in {} |-> <<>>]]

\* the machine state the helpers thread through a call; errno is what the
\* call has last stored in the C errno, "kept" while it has stored nothing
Machine(h, u, o) == [aut |-> h, errno |-> "kept", ub |-> u, ooms |-> o]

\* ---------------------------------------------------------------- helpers
RECURSIVE remove_from_the_outgoing_list(_, _, _)
remove_from_the_outgoing_list(list, a_in, bit) ==
    IF list = <<>> THEN <<>>
    ELSE IF Head(list) = outgoing_t(a_in, bit) THEN Tail(list)
    ELSE <<Head(list)>> \o remove_from_the_outgoing_list(Tail(list), a_in, bit)

\* a stored reference (x, b) into the output side of x that can be followed
LiveOut(h, x, b) == x \in Aut /\ h[x].live /\ b >= 0 /\ b < h[x].m
\* a stored reference (x, b) into the input side of x that can be followed
LiveIn(h, x, b) == x \in Aut /\ h[x].live /\ b >= 0 /\ b < h[x].n

\* empties the slot and leaves the node in the list of the source
remove_the_connection_keeps_node(M, a_in, bit) ==
    IF UGe(bit, M.aut[a_in].n) THEN [M EXCEPT !.errno = "EINVAL"]
    ELSE [M EXCEPT !.aut[a_in].incoming[bit] = NoLink]

remove_the_connection(M, a_in, bit) ==
    LET A == M.aut[a_in]
    IN  IF UGe(bit, A.n) THEN [M EXCEPT !.errno = "EINVAL"]
        ELSE IF A.incoming[bit].aut = NULL THEN M
        ELSE LET source_aut == A.incoming[bit].aut
                 source_bit == A.incoming[bit].bit
             IN  IF ~LiveOut(M.aut, source_aut, source_bit)
                 THEN [M EXCEPT !.ub = TRUE]  \* reads and writes freed memory
                 ELSE LET current_out == M.aut[source_aut].outgoing[source_bit]
                          h1 == [M.aut EXCEPT ![source_aut].outgoing[source_bit] =
                                   remove_from_the_outgoing_list(current_out, a_in, bit)]
                      IN  [M EXCEPT !.aut = [h1 EXCEPT ![a_in].incoming[bit] = NoLink],
                                    !.errno = IF current_out = <<>> THEN "EINVAL" ELSE M.errno]

create_incoming_connection(M, gets_signals, bit, gives_signals, source_bit, fail) ==
    IF UGe(bit, M.aut[gets_signals].n) \/ UGe(source_bit, M.aut[gives_signals].m)
    THEN [M EXCEPT !.errno = "EINVAL"]
    ELSE LET occupied == M.aut[gets_signals].incoming[bit].aut # NULL
             current == M.aut[gives_signals].outgoing[source_bit]
             M1 == IF occupied
                   THEN [M EXCEPT !.aut[gives_signals].outgoing[source_bit] =
                                     remove_from_the_outgoing_list(current, gets_signals, bit),
                                  !.errno = IF current = <<>> THEN "EINVAL" ELSE M.errno]
                   ELSE M
         IN  IF fail
             THEN \* an occupied slot keeps the pointer to its freed record
                  [M1 EXCEPT !.errno = "ENOMEM", !.ooms = M.ooms + 1,
                             !.ub = M.ub \/ occupied]
             ELSE [M1 EXCEPT !.aut[gets_signals].incoming[bit] =
                                incoming_t(gives_signals, source_bit)]

create_outgoing_connection(M, gives_signals, source_bit, gets_signals, bit, fail) ==
    IF UGe(source_bit, M.aut[gives_signals].m) \/ UGe(bit, M.aut[gets_signals].n)
    THEN [M EXCEPT !.errno = "EINVAL"]
    ELSE LET current == M.aut[gives_signals].outgoing[source_bit]
             existing_connection ==
                 \E k \in 1..Len(current) : current[k] = outgoing_t(gets_signals, bit)
         IN  IF existing_connection THEN M
             ELSE IF fail THEN [M EXCEPT !.errno = "ENOMEM", !.ooms = M.ooms + 1]
             ELSE [M EXCEPT !.aut[gives_signals].outgoing[source_bit] =
                              <<outgoing_t(gets_signals, bit)>> \o current]

\* ------------------------------------------------------------- ma_connect
\* the loop of ma_connect from index i on; fi, fo: the loop indices at which
\* the incoming-record malloc, the outgoing-node malloc fails if reached
\* installs the new link without removing the one the bit holds
RECURSIVE connect_loop_keeps_old(_, _, _, _, _, _, _, _, _)
connect_loop_keeps_old(M, a_in, in, a_out, out, num, i, fi, fo) ==
    IF i = num \/ M.ub THEN M
    ELSE LET M1 == create_incoming_connection(M, a_in, in + i, a_out, out + i, i \in fi)
             M2 == IF M1.ub THEN M1
                   ELSE create_outgoing_connection(M1, a_out, out + i, a_in, in + i, i \in fo)
         IN  connect_loop_keeps_old(M2, a_in, in, a_out, out, num, i + 1, fi, fo)

RECURSIVE connect_loop(_, _, _, _, _, _, _, _, _)
connect_loop(M, a_in, in, a_out, out, num, i, fi, fo) ==
    IF i = num \/ M.ub THEN M
    ELSE LET A == M.aut[a_in]
             M0 == IF A.n = 0
                   THEN [M EXCEPT !.ub = TRUE]  \* indexes the NULL incoming array
                   ELSE IF UGe(in + i, A.n)
                   \* reads past the array; whatever is read, the callee's
                   \* range check returns at once
                   THEN [M EXCEPT !.errno = "EINVAL"]
                   ELSE IF A.incoming[in + i].aut # NULL
                   THEN remove_the_connection(M, a_in, in + i)
                   ELSE M
             M1 == IF M0.ub THEN M0
                   ELSE create_incoming_connection(M0, a_in, in + i, a_out, out + i, i \in fi)
             M2 == IF M1.ub THEN M1
                   ELSE create_outgoing_connection(M1, a_out, out + i, a_in, in + i, i \in fo)
         IN  connect_loop(M2, a_in, in, a_out, out, num, i + 1, fi, fo)

connect_guard(h, a_in, in, a_out, out, num) ==
    \/ a_in = NULL
    \/ a_out = NULL
    \/ num = 0
    \/ UGt(in + num, h[a_in].n)
    \/ UGt(out + num, h[a_out].m)

\* links the first bit of the range only
ma_connect_first_bit(M, a_in, in, a_out, out, num, fi, fo) ==
    IF connect_guard(M.aut, a_in, in, a_out, out, num)
    THEN [m |-> [M EXCEPT !.errno = "EINVAL"], ret |-> 0 - 1]
    ELSE [m |-> connect_loop(M, a_in, in, a_out, out, 1, 0, fi, fo), ret |-> 0]

ma_connect(M, a_in, in, a_out, out, num, fi, fo) ==
    IF connect_guard(M.aut, a_in, in, a_out, out, num)
    THEN [m |-> [M EXCEPT !.errno = "EINVAL"], ret |-> 0 - 1]
    ELSE [m |-> connect_loop(M, a_in, in, a_out, out, num, 0, fi, fo), ret |-> 0]

\* ---------------------------------------------------------- ma_disconnect
RECURSIVE disconnect_loop(_, _, _, _, _)
disconnect_loop(M, a_in, in, num, i) ==
    IF i = num \/ M.ub THEN M
    ELSE disconnect_loop(remove_the_connection(M, a_in, in + i), a_in, in, num, i + 1)

disconnect_guard(h, a_in, in, num) ==
    \/ a_in = NULL
    \/ num = 0
    \/ UGt(in + num, h[a_in].n)

ma_disconnect(M, a_in, in, num) ==
    IF disconnect_guard(M.aut, a_in, in, num)
    THEN [m |-> [M EXCEPT !.errno = "EINVAL"], ret |-> 0 - 1]
    ELSE [m |-> disconnect_loop(M, a_in, in, num, 0), ret |-> 0]

\* -------------------------------------------------------------- ma_delete
RECURSIVE clear_incoming(_, _, _)
clear_incoming(M, a, i) ==
    IF i = M.aut[a].n \/ M.ub THEN M
    ELSE clear_incoming(remove_the_connection(M, a, i), a, i + 1)

\* the while loop over one outgoing list of the automaton being cleared
\* frees the nodes of the list and leaves the receivers' slots
clear_list_keeps_slots(M, current) == M

\* clears the receivers' slots and their input bits with them
RECURSIVE clear_list_clears_inputs(_, _)
clear_list_clears_inputs(M, current) ==
    IF current = <<>> \/ M.ub THEN M
    ELSE LET getting_signals == Head(current).aut
             receiver == Head(current).bit
         IN  IF ~LiveIn(M.aut, getting_signals, receiver)
             THEN [M EXCEPT !.ub = TRUE]
             ELSE clear_list_clears_inputs(
                      [M EXCEPT !.aut[getting_signals].incoming[receiver] = NoLink,
                                !.aut[getting_signals].input = @ \ {receiver}],
                      Tail(current))

RECURSIVE clear_list(_, _)
clear_list(M, current) ==
    IF current = <<>> \/ M.ub THEN M
    ELSE LET getting_signals == Head(current).aut
             receiver == Head(current).bit
         IN  IF ~LiveIn(M.aut, getting_signals, receiver)
             THEN [M EXCEPT !.ub = TRUE]  \* follows a pointer to freed memory
             ELSE clear_list([M EXCEPT !.aut[getting_signals].incoming[receiver] = NoLink],
                             Tail(current))

RECURSIVE clear_outgoing(_, _, _)
clear_outgoing(M, a, i) ==
    IF i = M.aut[a].m \/ M.ub THEN M
    ELSE LET M1 == clear_list(M, M.aut[a].outgoing[i])
         IN  clear_outgoing([M1 EXCEPT !.aut[a].outgoing[i] = <<>>], a, i + 1)

clear_the_connections(M, a) == clear_outgoing(clear_incoming(M, a, 0), a, 0)

free_automaton(M, a) == [M EXCEPT !.aut[a] = FreeCell]

ma_delete(M, a) ==
    IF a = NULL THEN M ELSE free_automaton(clear_the_connections(M, a), a)

\* ----------------------------------------------------------- construction
NOFN == "null"  \* a NULL callback pointer

initialize_automaton(n, m, s, t, y) == ~(t = NOFN \/ y = NOFN \/ m = 0 \/ s = 0)

\* the automaton allocate_automaton leaves behind: calloc'ed buffers and
\* connection arrays
allocate_automaton(n, m, s, t, y) ==
    [live |-> TRUE, n |-> n, m |-> m, s |-> s, t |-> t, y |-> y,
     input |-> {}, state |-> {}, output |-> {},
     incoming |-> [i \in 0..(n - 1) |-> NoLink],
     outgoing |-> [i \in 0..(m - 1) |-> <<>>]]

\* a: the address malloc returns for the moore_t; fail: "struct" when that
\* malloc fails, "buffers" when a calloc of allocate_automaton fails
ma_create_simple(M, a, n, m, t, fail) ==
    IF fail = "struct"
    THEN [m |-> [M EXCEPT !.errno = "ENOMEM", !.ooms = M.ooms + 1], ret |-> NULL]
    ELSE IF ~initialize_automaton(n, m, m, t, "identity_function")
    THEN [m |-> [M EXCEPT !.errno = "EINVAL"], ret |-> NULL]
    ELSE IF fail = "buffers"
    THEN [m |-> [M EXCEPT !.errno = "ENOMEM", !.ooms = M.ooms + 1], ret |-> NULL]
    ELSE [m |-> [M EXCEPT !.aut[a] = allocate_automaton(n, m, m, t, "identity_function")],
          ret |-> a]

\* ----------------------------------------------------------- bit buffers
\* a NULL buffer pointer, a NULL array of automata
NOBUF == {0 - 1}
NOARRAY == <<0 - 1>>

\* the bits of the mask (1ULL << num_bits) - 1
create_bit_mask(num_bits) == 0..(num_bits - 1)

get_bit(source, bit_index) ==
    LET block_index == bit_index \div BITS_PER_BLOCK
        bit_offset == bit_index % BITS_PER_BLOCK
    IN  IF source = NOBUF THEN 0 - 1
        ELSE IF (block_index * BITS_PER_BLOCK + bit_offset) \in source THEN 1 ELSE 0

set_bit(bit_value, array, block_index, bit_index) ==
    IF array = NOBUF THEN array
    ELSE IF bit_value = 1
    THEN array \cup {block_index * BITS_PER_BLOCK + bit_index}
    ELSE array \ {block_index * BITS_PER_BLOCK + bit_index}

\* array[block] &= mask
and_mask(array, block, mask) ==
    {b \in array : b \div BITS_PER_BLOCK = block => (b % BITS_PER_BLOCK) \in mask}

\* memcpy of blocks whole 64-bit blocks
memcpy(dst, src, blocks) ==
    {b \in dst : b \div BITS_PER_BLOCK >= blocks}
        \cup {b \in src : b \div BITS_PER_BLOCK < blocks}

\* copies the blocks of the state and leaves the tail of the last one
identity_function_unmasked(output, state, m, s) ==
    IF s # m \/ m = 0 THEN [output |-> output, errno |-> "EINVAL"]
    ELSE [output |-> memcpy(output, state, (m + FILL_THE_BLOCK) \div BITS_PER_BLOCK),
          errno |-> "kept"]

identity_function(output, state, m, s) ==
    IF s # m \/ m = 0 THEN [output |-> output, errno |-> "EINVAL"]
    ELSE LET blocks == (m + FILL_THE_BLOCK) \div BITS_PER_BLOCK
             copied == memcpy(output, state, blocks)
         IN  [output |-> IF m % BITS_PER_BLOCK # 0
                         THEN and_mask(copied, blocks - 1,
                                       create_bit_mask(m % BITS_PER_BLOCK))
                         ELSE copied,
              errno |-> "kept"]

\* the callbacks the caller hands to the library.  A transition callback
\* fills the zeroed next_state from the input and the state it is given:
\* t_copy copies the input bits, t_xor stores state XOR input.
transition_function(t, input, state, n, s) ==
    LET in == {i \in input : i < n}
    IN  CASE t = "t_copy" -> {i \in in : i < s}
          [] t = "t_xor" -> (state \ in) \cup (in \ state)

\* An output callback fills the output from the state: y_copy copies the
\* blocks of the state the output has room for, y_ones sets every bit of
\* every block of the output.
output_function(y, output, state, m, s) ==
    LET blocks == (m + FILL_THE_BLOCK) \div BITS_PER_BLOCK
    IN  CASE y = "identity_function" -> identity_function(output, state, m, s)
          [] y = "y_copy" -> [output |-> memcpy(output, state, blocks), errno |-> "kept"]
          [] y = "y_ones" -> [output |-> 0..(blocks * BITS_PER_BLOCK - 1),
                              errno |-> "kept"]

\* ----------------------------------------------------------- ma_set_input
\* writes every input bit, linked or not
RECURSIVE set_every_input_bit(_, _, _, _)
set_every_input_bit(A, input, input_signals, i) ==
    IF i = input_signals THEN A
    ELSE set_every_input_bit(
             [A EXCEPT !.input = set_bit(get_bit(input, i), A.input,
                                         i \div BITS_PER_BLOCK, i % BITS_PER_BLOCK)],
             input, input_signals, i + 1)

RECURSIVE set_input_loop(_, _, _, _)
set_input_loop(A, input, input_signals, i) ==
    IF i = input_signals THEN A
    ELSE IF A.incoming[i].aut = NULL
    THEN LET block == i \div BITS_PER_BLOCK
             bit_index == i % BITS_PER_BLOCK
             bit_value == get_bit(input, i)
         IN  set_input_loop([A EXCEPT !.input = set_bit(bit_value, A.input, block, bit_index)],
                            input, input_signals, i + 1)
    ELSE set_input_loop(A, input, input_signals, i + 1)

ma_set_input(M, a, input) ==
    IF a = NULL \/ input = NOBUF \/ M.aut[a].n = 0
    THEN [m |-> [M EXCEPT !.errno = "EINVAL"], ret |-> 0 - 1]
    ELSE [m |-> [M EXCEPT !.aut[a] = set_input_loop(M.aut[a], input, M.aut[a].n, 0)],
          ret |-> 0]

\* ----------------------------------------------------------- ma_set_state
\* stores the state and leaves the output as it was
ma_set_state_keeps_output(M, a, state) ==
    IF a = NULL \/ state = NOBUF
    THEN [m |-> [M EXCEPT !.errno = "EINVAL"], ret |-> 0 - 1]
    ELSE [m |-> [M EXCEPT !.aut[a].state =
                     memcpy(M.aut[a].state, state,
                            (M.aut[a].s + FILL_THE_BLOCK) \div BITS_PER_BLOCK)],
          ret |-> 0]

ma_set_state(M, a, state) ==
    IF a = NULL \/ state = NOBUF
    THEN [m |-> [M EXCEPT !.errno = "EINVAL"], ret |-> 0 - 1]
    ELSE LET A == M.aut[a]
             blocks == (A.s + FILL_THE_BLOCK) \div BITS_PER_BLOCK
             copied == memcpy(A.state, state, blocks)
             out == output_function(A.y, A.output, copied, A.m, A.s)
         IN  [m |-> [M EXCEPT !.aut[a].state = copied,
                              !.aut[a].output = out.output,
                              !.errno = IF out.errno = "kept" THEN M.errno ELSE out.errno],
              ret |-> 0]

ma_get_output(M, a) ==
    IF a = NULL THEN [m |-> [M EXCEPT !.errno = "EINVAL"], ret |-> NOBUF]
    ELSE [m |-> M, ret |-> M.aut[a].output]

\* ---------------------------------------------------------- ma_create_full
\* a: the address malloc returns for the moore_t; fail: as in
\* ma_create_simple; q: the initial state
ma_create_full(M, a, n, m, s, t, y, q, fail) ==
    IF fail = "struct"
    THEN [m |-> [M EXCEPT !.errno = "ENOMEM", !.ooms = M.ooms + 1], ret |-> NULL]
    ELSE IF ~initialize_automaton(n, m, s, t, y)
    THEN [m |-> [M EXCEPT !.errno = "EINVAL"], ret |-> NULL]
    ELSE IF fail = "buffers"
    THEN [m |-> [M EXCEPT !.errno = "ENOMEM", !.ooms = M.ooms + 1], ret |-> NULL]
    ELSE LET R == ma_set_state([M EXCEPT !.aut[a] = allocate_automaton(n, m, s, t, y)],
                               a, q)
         IN  IF R.ret = 0 - 1
             THEN [m |-> free_automaton(R.m, a), ret |-> NULL]
             ELSE [m |-> R.m, ret |-> a]

\* ---------------------------------------------------------------- ma_step
RECURSIVE get_input_loop(_, _, _)
get_input_loop(M, a, i) ==
    IF i = M.aut[a].n \/ M.ub THEN M
    ELSE LET current == M.aut[a].incoming[i]
         IN  IF current.aut = NULL THEN get_input_loop(M, a, i + 1)
             ELSE IF ~LiveOut(M.aut, current.aut, current.bit)
             THEN [M EXCEPT !.ub = TRUE]  \* reads the output of freed memory
             ELSE LET bit_value == get_bit(M.aut[current.aut].output, current.bit)
                      block == i \div BITS_PER_BLOCK
                      bit_index == i % BITS_PER_BLOCK
                  IN  get_input_loop(
                          [M EXCEPT !.aut[a].input =
                                        set_bit(bit_value, M.aut[a].input, block, bit_index)],
                          a, i + 1)

\* takes the linked bits from their sources and clears the bits that have
\* no link
get_input_clears_unlinked(M, a) ==
    LET M1 == get_input_loop(M, a, 0)
    IN  IF M1.ub THEN M1
        ELSE [M1 EXCEPT !.aut[a].input =
                 {i \in M1.aut[a].input :
                     i < M.aut[a].n /\ M.aut[a].incoming[i].aut # NULL}]

get_input(M, a) ==
    LET M1 == get_input_loop(M, a, 0)
        input_signals == M.aut[a].n
        bit_offset == input_signals % BITS_PER_BLOCK
    IN  IF M1.ub \/ bit_offset = 0 THEN M1
        ELSE [M1 EXCEPT !.aut[a].input =
                 and_mask(M1.aut[a].input, input_signals \div BITS_PER_BLOCK,
                          create_bit_mask(bit_offset))]

null_in_the_array(a, size) == \E i \in 1..size : a[i] = NULL

\* stores the new state and leaves the output of the old one
calculate_new_state_keeps_output(M, a, fail) ==
    LET A == M.aut[a]
        state_offset == A.s % BITS_PER_BLOCK
        state_blocks == (A.s + FILL_THE_BLOCK) \div BITS_PER_BLOCK
    IN  IF fail THEN [M EXCEPT !.errno = "ENOMEM", !.ooms = M.ooms + 1]
        ELSE LET next_state == transition_function(A.t, A.input, A.state, A.n, A.s)
                 copied == memcpy(A.state, next_state, state_blocks)
             IN  [M EXCEPT !.aut[a].state =
                      IF state_offset # 0
                      THEN and_mask(copied, state_blocks - 1, create_bit_mask(state_offset))
                      ELSE copied]

\* fail: the calloc of the scratch state fails
calculate_new_state(M, a, fail) ==
    LET A == M.aut[a]
        state_offset == A.s % BITS_PER_BLOCK
        output_offset == A.m % BITS_PER_BLOCK
        state_blocks == (A.s + FILL_THE_BLOCK) \div BITS_PER_BLOCK
        output_blocks == (A.m + FILL_THE_BLOCK) \div BITS_PER_BLOCK
    IN  IF fail THEN [M EXCEPT !.errno = "ENOMEM", !.ooms = M.ooms + 1]
        ELSE LET next_state == transition_function(A.t, A.input, A.state, A.n, A.s)
                 copied == memcpy(A.state, next_state, state_blocks)
                 state == IF state_offset # 0
                          THEN and_mask(copied, state_blocks - 1, create_bit_mask(state_offset))
                          ELSE copied
                 out == output_function(A.y, A.output, state, A.m, A.s)
                 output == IF output_offset # 0
                           THEN and_mask(out.output, output_blocks - 1,
                                         create_bit_mask(output_offset))
                           ELSE out.output
             IN  [M EXCEPT !.aut[a].state = state,
                           !.aut[a].output = output,
                           !.errno = IF out.errno = "kept" THEN M.errno ELSE out.errno]

\* refreshes the input of at[i] and advances the entry before it at once
RECURSIVE set_the_inputs_again(_, _, _, _)
set_the_inputs_again(M, at, num, i) ==
    IF i = num \/ M.ub THEN M
    ELSE LET M1 == get_input(M, at[i + 1])
             M2 == IF i = 0 \/ M1.ub THEN M1
                   ELSE calculate_new_state(M1, at[i], FALSE)
         IN  set_the_inputs_again(M2, at, num, i + 1)

\* the first loop of ma_step from index i on (at[i] of the code is at[i + 1])
RECURSIVE set_the_inputs(_, _, _, _)
set_the_inputs(M, at, num, i) ==
    IF i = num \/ M.ub THEN M
    ELSE set_the_inputs(get_input(M, at[i + 1]), at, num, i + 1)

\* reads the input of each entry again right before it advances it
RECURSIVE calculate_the_new_states_rereads(_, _, _, _, _)
calculate_the_new_states_rereads(M, at, num, i, ff) ==
    IF i = num \/ M.ub THEN M
    ELSE calculate_the_new_states_rereads(
             calculate_new_state(get_input(M, at[i + 1]), at[i + 1], i \in ff),
             at, num, i + 1, ff)

\* the second loop of ma_step; ff: the indices at which the calloc fails
RECURSIVE calculate_the_new_states(_, _, _, _, _)
calculate_the_new_states(M, at, num, i, ff) ==
    IF i = num \/ M.ub THEN M
    ELSE calculate_the_new_states(calculate_new_state(M, at[i + 1], i \in ff),
                                  at, num, i + 1, ff)

\* refreshes and advances one automaton after the other
RECURSIVE step_one_by_one(_, _, _, _, _)
step_one_by_one(M, at, num, i, ff) ==
    IF i = num \/ M.ub THEN M
    ELSE step_one_by_one(calculate_new_state(get_input(M, at[i + 1]), at[i + 1], i \in ff),
                         at, num, i + 1, ff)

ma_step_one_by_one(M, at, num, ff) ==
    IF at = NOARRAY \/ num = 0 \/ null_in_the_array(at, num)
    THEN [m |-> [M EXCEPT !.errno = "EINVAL"], ret |-> 0 - 1]
    ELSE [m |-> step_one_by_one(M, at, num, 0, ff), ret |-> 0]

\* refreshes the inputs of the entries before the first NULL one, then
\* rejects the array
ma_step_checks_late(M, at, num, ff) ==
    IF at = NOARRAY \/ num = 0
    THEN [m |-> [M EXCEPT !.errno = "EINVAL"], ret |-> 0 - 1]
    ELSE IF null_in_the_array(at, num)
    THEN LET first == CHOOSE i \in 1..num :
                          at[i] = NULL /\ \A k \in 1..(i - 1) : at[k] # NULL
         IN  [m |-> [set_the_inputs(M, at, first - 1, 0) EXCEPT !.errno = "EINVAL"],
              ret |-> 0 - 1]
    ELSE [m |-> calculate_the_new_states(set_the_inputs(M, at, num, 0), at, num, 0, ff),
          ret |-> 0]

\* refreshes the input of every automaton of the heap, listed or not, before
\* it advances the listed ones
ma_step_refreshes_every_input(M, at, num, ff) ==
    IF at = NOARRAY \/ num = 0 \/ null_in_the_array(at, num)
    THEN [m |-> [M EXCEPT !.errno = "EINVAL"], ret |-> 0 - 1]
    ELSE [m |-> calculate_the_new_states(
                    set_the_inputs(M, [k \in 1..MaxAut |-> k], MaxAut, 0),
                    at, num, 0, ff),
          ret |-> 0]

ma_step(M, at, num, ff) ==
    IF at = NOARRAY \/ num = 0 \/ null_in_the_array(at, num)
    THEN [m |-> [M EXCEPT !.errno = "EINVAL"], ret |-> 0 - 1]
    ELSE [m |-> calculate_the_new_states(set_the_inputs(M, at, num, 0), at, num, 0, ff),
          ret |-> 0]

\* ------------------------------------------------------------ the program
NoCall ==
    [op |-> "init", a |-> NULL, in |-> 0, b |-> NULL, out |-> 0, num |-> 0,
     n |-> 0, m |-> 0, s |-> 0, t |-> "none", y |-> "none",
     list |-> <<>>, bits |-> {}, ret |-> 0, errno |-> "kept", oom |-> FALSE]

Cur == Machine(aut, ub, ooms)

\* the handles a caller can hold: NULL and the automata it has not deleted
Handles == {NULL} \cup {a \in Aut : aut[a].live}
SizeVals == (0 - MaxWrap)..MaxStart
StartVals == 0..MaxStart
\* the signal counts a caller asks for
Widths == {w \in [n : 0..MaxSignals, m : 0..MaxSignals] : w.n + w.m <= MaxSignals}
\* the signals of the automata alive in heap h
RECURSIVE Used(_, _)
Used(h, a) == IF a = 0 THEN 0
              ELSE Used(h, a - 1) + (IF h[a].live THEN h[a].n + h[a].m ELSE 0)
\* the simulation runs on automata of at most MaxStepOut outputs that have
\* at most MaxHeap signals in all
StepWidths ==
    {w \in Widths : w.m <= MaxStepOut /\ Used(aut, MaxAut) + w.n + w.m <= MaxHeap}
FailPoints == {"none", "struct", "buffers"}

Init ==
    /\ aut = [a \in Aut |-> FreeCell]
    /\ ub = FALSE
    /\ ooms = 0
    /\ pre = [a \in Aut |-> FreeCell]
    /\ last = NoCall

\* a call can be made: the program is running and defined
Running == ~ub /\ last.op = "init"

\* The call returns: M is the machine it leaves, call its record.  The
\* monitor (pre, last) records at most one call of a run, the run's last:
\* the heap the call found, its arguments and what it returned.
Return(M, call) ==
    /\ aut' = M.aut
    /\ ub' = M.ub
    /\ ooms' = M.ooms
    /\ \E record \in BOOLEAN :
        /\ pre' = IF record THEN aut ELSE pre
        /\ last' = IF record
                   THEN [call EXCEPT !.errno = M.errno, !.oom = M.ooms > ooms]
                   ELSE last

CreateSimple(Ws, Ts, MaxFail) ==
    /\ Running
    /\ \E a \in Aut, w \in Ws, t \in Ts, fail \in FailPoints :
        /\ ~aut[a].live
        /\ LET R == ma_create_simple(Cur, a, w.n, w.m, t, fail)
           IN  /\ R.m.ooms <= MaxFail
               /\ Return(R.m, [NoCall EXCEPT !.op = "create_simple", !.n = w.n,
                                          !.m = w.m, !.s = w.m, !.t = t,
                                          !.y = "identity_function", !.ret = R.ret])

Delete ==
    /\ Running
    /\ \E a \in Handles :
        Return(ma_delete(Cur, a), [NoCall EXCEPT !.op = "delete", !.a = a])

\* the arguments of ma_connect; with a NULL automaton the call returns before
\* it reads the others
ConnectArgs(Sizes) ==
    {c \in [a_in : Handles, in : Sizes, a_out : Handles, out : Sizes,
            num : 0..MaxNum] :
        (c.a_in = NULL \/ c.a_out = NULL) => (c.in = 0 /\ c.out = 0 /\ c.num = 1)}

\* MaxFail: how many allocations the environment may fail in all
Connect(Sizes, MaxFail) ==
    /\ Running
    /\ \E c \in ConnectArgs(Sizes) :
       \E fi \in SUBSET (0..(c.num - 1)), fo \in SUBSET (0..(c.num - 1)) :
        /\ connect_guard(aut, c.a_in, c.in, c.a_out, c.out, c.num) => fi = {} /\ fo = {}
        /\ LET R == ma_connect(Cur, c.a_in, c.in, c.a_out, c.out, c.num, fi, fo)
           IN  /\ R.m.ooms <= MaxFail
               /\ Return(R.m, [NoCall EXCEPT !.op = "connect", !.a = c.a_in, !.in = c.in,
                                             !.b = c.a_out, !.out = c.out, !.num = c.num,
                                             !.ret = R.ret])

Disconnect(Sizes) ==
    /\ Running
    /\ \E a_in \in Handles, in \in Sizes, num \in 0..MaxNum :
        LET R == ma_disconnect(Cur, a_in, in, num)
        IN  Return(R.m, [NoCall EXCEPT !.op = "disconnect", !.a = a_in, !.in = in,
                                       !.num = num, !.ret = R.ret])

\* every allocation succeeds
Next ==
    \/ CreateSimple(Widths, {"t_copy", NOFN}, 0)
    \/ Delete
    \/ Connect(SizeVals, 0)
    \/ Disconnect(SizeVals)

Spec == Init /\ [][Next]_vars

\* the environment may fail up to MaxOOM allocations; the start indices are
\* below 2^63
NextOOM ==
    \/ CreateSimple(Widths, {"t_copy", NOFN}, MaxOOM)
    \/ Delete
    \/ Connect(StartVals, MaxOOM)
    \/ Disconnect(StartVals)

SpecOOM == Init /\ [][NextOOM]_vars

\* ---------------------------------------------------------- the simulation
\* the arrays a caller passes: a NULL pointer or a buffer of the width asked
\* for, whose last block may carry MaxTail bits beyond the width
Buffers(width) == {NOBUF} \cup SUBSET (0..(width + MaxTail - 1))

SetInput ==
    /\ Running
    /\ \E a \in Handles :
       \E input \in Buffers(IF a = NULL THEN 0 ELSE aut[a].n) :
        LET R == ma_set_input(Cur, a, input)
        IN  Return(R.m, [NoCall EXCEPT !.op = "set_input", !.a = a, !.bits = input,
                                       !.ret = R.ret])

SetState ==
    /\ Running
    /\ \E a \in Handles :
       \E state \in Buffers(IF a = NULL THEN 0 ELSE aut[a].s) :
        LET R == ma_set_state(Cur, a, state)
        IN  Return(R.m, [NoCall EXCEPT !.op = "set_state", !.a = a, !.bits = state,
                                       !.ret = R.ret])

GetOutput ==
    /\ Running
    /\ \E a \in Handles :
        LET R == ma_get_output(Cur, a)
        IN  Return(R.m, [NoCall EXCEPT !.op = "get_output", !.a = a, !.bits = R.ret])

\* the arrays of automata a caller passes to ma_step, duplicates and NULL
\* entries included
StepLists == {NOARRAY} \cup UNION {[1..k -> Handles] : k \in 0..MaxList}

Step(MaxFail) ==
    /\ Running
    /\ \E at \in StepLists :
       \E ff \in SUBSET (0..(Len(at) - 1)) :
        LET R == ma_step(Cur, at, Len(at), ff)
        IN  /\ R.ret # 0 => ff = {}
            /\ R.m.ooms <= MaxFail
            /\ Return(R.m, [NoCall EXCEPT !.op = "step", !.list = at, !.ret = R.ret])

\* the widths a caller of ma_create_full asks for
FullWidths ==
    {w \in [n : 0..MaxSignals, m : 0..MaxSignals, s : 0..MaxSignals] :
        w.n + w.m + w.s <= MaxSignals}

CreateFull(MaxFail) ==
    /\ Running
    /\ \E a \in Aut, w \in FullWidths, t \in {"t_xor", NOFN},
          y \in {"y_copy", "y_ones", NOFN}, fail \in FailPoints :
       \E q \in Buffers(w.s) :
        /\ ~aut[a].live
        /\ LET R == ma_create_full(Cur, a, w.n, w.m, w.s, t, y, q, fail)
           IN  /\ R.m.ooms <= MaxFail
               /\ Return(R.m, [NoCall EXCEPT !.op = "create_full", !.n = w.n,
                                          !.m = w.m, !.s = w.s, !.t = t, !.y = y,
                                          !.bits = q, !.ret = R.ret])

NextStep ==
    \/ CreateSimple(StepWidths, {"t_copy", "t_xor"}, 0)
    \/ Delete
    \/ Connect(StartVals, 0)
    \/ Disconnect(StartVals)
    \/ SetInput
    \/ SetState
    \/ GetOutput
    \/ Step(0)

SpecStep == Init /\ [][NextStep]_vars

\* construction with callbacks and an initial state, and the simulation of
\* unlinked automata; the environment may fail up to MaxOOM allocations
NextFull ==
    \/ CreateFull(MaxOOM)
    \/ Delete
    \/ SetInput
    \/ SetState
    \/ GetOutput
    \/ Step(MaxOOM)

SpecFull == Init /\ [][NextFull]_vars

\* ======================================================= properties
Bits == 0..(MaxSignals - 1)

\* input bit i of D holds the incoming record (S, j)
InSlot(h, D, i, S, j) ==
    h[D].live /\ i < h[D].n /\ h[D].incoming[i] = incoming_t(S, j)

\* the positions of the node (D, i) in the outgoing list of output bit j of S
OutNodes(h, S, j, D, i) ==
    IF h[S].live /\ j < h[S].m
    THEN {k \in 1..Len(h[S].outgoing[j]) : h[S].outgoing[j][k] = outgoing_t(D, i)}
    ELSE {}

OutEntry(h, S, j, D, i) == OutNodes(h, S, j, D, i) # {}

Symmetric(h) ==
    \A D \in Aut, S \in Aut, i \in Bits, j \in Bits :
        h[D].live => (InSlot(h, D, i, S, j) <=> OutEntry(h, S, j, D, i))

\* the recorded call, by kind
Connected == last.op = "connect"
Disconnected == last.op = "disconnect"
Deleted == last.op = "delete" /\ last.a # NULL

\* the recorded connect met the preconditions of the interface (both
\* automata present, count > 0, both ranges inside the signal counts as
\* numbers, not modulo 2^64), none of its allocations failed, and it ran
\* to its return
ConnectSucceeded ==
    /\ Connected /\ last.ret = 0 /\ ~last.oom /\ ~ub
    /\ last.in >= 0 /\ last.out >= 0

DisconnectSucceeded ==
    Disconnected /\ last.ret = 0 /\ ~ub /\ last.in >= 0

\* ------------------------------------------------------------------- C1
\* the recorded call is a step over distinct automata that returned 0 with
\* every scratch buffer allocated
StepRan ==
    /\ last.op = "step" /\ last.ret = 0 /\ ~last.oom /\ ~ub
    /\ \A k1 \in 1..Len(last.list), k2 \in 1..Len(last.list) :
           last.list[k1] = last.list[k2] => k1 = k2

\* the input of automaton a of heap h with every linked bit taken from the
\* output of its source in h
Refreshed(h, a) ==
    {i \in 0..(h[a].n - 1) :
        IF h[a].incoming[i].aut # NULL
        THEN h[a].incoming[i].bit \in h[h[a].incoming[i].aut].output
        ELSE i \in h[a].input}

\* A and B have one input and one output, copy the input, feed each other,
\* and A holds 1 while B holds 0
CrossLinked(h, A, B) ==
    /\ A # B /\ h[A].live /\ h[B].live
    /\ h[A].n = 1 /\ h[A].m = 1 /\ h[A].t = "t_copy"
    /\ h[B].n = 1 /\ h[B].m = 1 /\ h[B].t = "t_copy"
    /\ h[A].incoming[0] = incoming_t(B, 0)
    /\ h[B].incoming[0] = incoming_t(A, 0)
    /\ h[A].state = {0} /\ h[A].output = {0}
    /\ h[B].state = {} /\ h[B].output = {}

\* C1: step synchronicity.  After a step over a list of distinct automata,
\* with any links (self-links and cycles included), the input of every
\* listed automaton has each linked bit equal to the output bit its source
\* had before the call, and its state is its transition callback applied to
\* that input and the state before the call, wherever source and
\* destination stand in the list.  With A and B of width 1 cross-linked and
\* copying, A at 1 and B at 0, a step on [A, B] leaves A's output 0 and B's
\* output 1.
C1_StepSynchronous ==
    StepRan =>
        /\ \A k \in 1..Len(last.list) :
            LET a == last.list[k]
                in == Refreshed(pre, a)
                next_state == transition_function(pre[a].t, in, pre[a].state,
                                                  pre[a].n, pre[a].s)
            IN  /\ aut[a].input = in
                /\ aut[a].state = {b \in next_state : b < pre[a].s}
        /\ \A A \in Aut, B \in Aut :
               CrossLinked(pre, A, B) /\ last.list = <<A, B>> =>
                   aut[A].output = {} /\ aut[B].output = {0}

\* the step on [A, B] of the cross-linked pair has swapped the outputs
C1_Witness ==
    /\ StepRan
    /\ \E A \in Aut, B \in Aut :
        /\ CrossLinked(pre, A, B)
        /\ last.list = <<A, B>>
        /\ aut[A].output = {} /\ aut[B].output = {0}

\* ------------------------------------------------------------------- C2
\* C2: link symmetry.  After any sequence of create, connect, disconnect
\* and delete calls in which no allocation fails, input bit i of a live
\* automaton D holds (S, j) iff the outgoing list of output bit j of S
\* holds the node (D, i).
C2_LinkSymmetry == ub \/ Symmetric(aut)

\* a delete has cut the links of the deleted automaton and a link survives
C2_Witness ==
    /\ Deleted /\ ~ub
    /\ \E D \in Aut, i \in Bits, j \in Bits :
           D # last.a /\ InSlot(pre, D, i, last.a, j)
    /\ \E D \in Aut, S \in Aut, i \in Bits, j \in Bits :
           InSlot(aut, D, i, S, j) /\ OutEntry(aut, S, j, D, i)

\* ------------------------------------------------------------------- C3
\* C3: the link symmetry holds immediately after every connect, disconnect
\* and delete, also after a connect in which the allocation of an incoming
\* record or of an outgoing node fails: a call that finds the heap
\* symmetric leaves it symmetric.
C3_SymmetryAfterEveryCall ==
    (Connected \/ Disconnected \/ Deleted) /\ ~ub /\ Symmetric(pre) => Symmetric(aut)

\* ------------------------------------------------------------------- C4
\* C4: after delete(X) no surviving automaton has an incoming record whose
\* source is X or an outgoing node whose destination is X, every input bit
\* X fed is unconnected, and the links between the survivors are as before.
C4_DeleteSevers ==
    Deleted =>
        /\ ~ub
        /\ ~aut[last.a].live
        /\ \A D \in Aut \ {last.a} :
            /\ aut[D].live = pre[D].live
            /\ \A i \in DOMAIN aut[D].incoming :
                /\ aut[D].incoming[i].aut # last.a
                /\ pre[D].incoming[i].aut = last.a => aut[D].incoming[i] = NoLink
                /\ pre[D].incoming[i].aut # last.a =>
                       aut[D].incoming[i] = pre[D].incoming[i]
            /\ \A j \in DOMAIN aut[D].outgoing :
                /\ \A k \in 1..Len(aut[D].outgoing[j]) :
                       aut[D].outgoing[j][k].aut # last.a
                /\ aut[D].outgoing[j] =
                       SelectSeq(pre[D].outgoing[j], LAMBDA e : e.aut # last.a)

\* ------------------------------------------------------------------- C5
\* C5: in every reachable state each destination (D, i) has at most one
\* node over all outgoing lists of all automata and output bits.
C5_OneNodePerDestination ==
    \A D \in Aut, i \in Bits :
        \A S1 \in Aut, S2 \in Aut, j1 \in Bits, j2 \in Bits :
            /\ Cardinality(OutNodes(aut, S1, j1, D, i)) <= 1
            /\ OutEntry(aut, S1, j1, D, i) /\ OutEntry(aut, S2, j2, D, i)
                   => S1 = S2 /\ j1 = j2

\* ------------------------------------------------------------------- C6
\* the input bits of the recorded call's range
Range == {last.in + i : i \in 0..(last.num - 1)}

\* C6: a successful connect on an input bit that already holds a link
\* (S_old, j_old) leaves the bit's incoming slot holding the new
\* (S_new, j_new), the bit in the outgoing list of S_new.j_new and, unless
\* the old and the new source bit are the same, no longer in the outgoing
\* list of S_old.j_old; S_old = S_new and the destination being its own
\* source are included.
C6_ConnectReplaces ==
    ConnectSucceeded =>
        \A i \in 0..(last.num - 1) :
            LET bit == last.in + i
                old == pre[last.a].incoming[bit]
                new == incoming_t(last.b, last.out + i)
            IN  old.aut # NULL =>
                    /\ aut[last.a].incoming[bit] = new
                    /\ OutEntry(aut, last.b, last.out + i, last.a, bit)
                    /\ old # new => ~OutEntry(aut, old.aut, old.bit, last.a, bit)

\* a self-link of the destination was replaced by a link to another output
\* bit of the same automaton
C6_Witness ==
    /\ ConnectSucceeded
    /\ last.a = last.b
    /\ \E i \in 0..(last.num - 1) :
        LET old == pre[last.a].incoming[last.in + i]
        IN  /\ old.aut = last.a
            /\ old.bit # last.out + i
            /\ aut[last.a].incoming[last.in + i] = incoming_t(last.a, last.out + i)

\* ------------------------------------------------------------------- C7
\* C7: after a successful connect(A, in, B, out, num) the incoming slot of
\* input bit in+i of A is (B, out+i) for every i < num, and the incoming
\* slots of A outside the range and of every other automaton are unchanged.
C7_ConnectLinksRange ==
    ConnectSucceeded =>
        /\ \A i \in 0..(last.num - 1) :
               aut[last.a].incoming[last.in + i] = incoming_t(last.b, last.out + i)
        /\ \A D \in Aut :
            /\ aut[D].live = pre[D].live
            /\ DOMAIN aut[D].incoming = DOMAIN pre[D].incoming
            /\ \A k \in DOMAIN pre[D].incoming :
                   (D = last.a /\ k \in Range) \/ aut[D].incoming[k] = pre[D].incoming[k]

\* two bits were linked in one call while a linked bit outside the range
\* kept its link
C7_Witness ==
    /\ ConnectSucceeded
    /\ last.num = 2
    /\ aut[last.a].incoming[last.in + 1] = incoming_t(last.b, last.out + 1)
    /\ \E D \in Aut : \E k \in DOMAIN pre[D].incoming :
        /\ ~(D = last.a /\ k \in Range)
        /\ pre[D].incoming[k].aut # NULL
        /\ aut[D].incoming[k] = pre[D].incoming[k]

\* ------------------------------------------------------------------- C8
\* the range start .. start+num-1 does not fit in count signals; a start
\* x < 0 stands for 2^64 + x, which is beyond every count of the model
RangeExceeds(start, num, count) == start < 0 \/ start + num > count

ConnectInvalid ==
    \/ last.a = NULL
    \/ last.b = NULL
    \/ last.num = 0
    \/ RangeExceeds(last.in, last.num, pre[last.a].n)
    \/ RangeExceeds(last.out, last.num, pre[last.b].m)

DisconnectInvalid ==
    \/ last.a = NULL
    \/ last.num = 0
    \/ RangeExceeds(last.in, last.num, pre[last.a].n)

\* C8: connect or disconnect with an absent automaton, with count 0 or with
\* start + count greater than the signal count returns -1 with errno EINVAL
\* and changes no incoming slot and no outgoing list.
C8_InvalidArgsRejected ==
    (Connected /\ ConnectInvalid) \/ (Disconnected /\ DisconnectInvalid) =>
        /\ last.ret = 0 - 1
        /\ last.errno = "EINVAL"
        /\ ~ub
        /\ aut = pre

\* ------------------------------------------------------------------- C9
\* C9: a disconnect(A, in, num) with A present, num > 0 and the range
\* inside the inputs of A succeeds, whether or not the bits of the range
\* hold a link, and raises no error when none does; it leaves every input
\* bit of the range unconnected, takes the node of each link it removed out
\* of the outgoing list of the link's source and changes no other outgoing
\* node and no incoming slot outside the range.
C9_DisconnectRemoves ==
    Disconnected /\ ~DisconnectInvalid /\ ~ub =>
        /\ last.ret = 0
        /\ (\A k \in Range : pre[last.a].incoming[k].aut = NULL) => last.errno = "kept"
        /\ \A k \in Range : aut[last.a].incoming[k] = NoLink
        /\ \A D \in Aut :
            /\ aut[D].live = pre[D].live
            /\ DOMAIN aut[D].incoming = DOMAIN pre[D].incoming
            /\ \A k \in DOMAIN pre[D].incoming :
                   (D = last.a /\ k \in Range) \/ aut[D].incoming[k] = pre[D].incoming[k]
            /\ DOMAIN aut[D].outgoing = DOMAIN pre[D].outgoing
            /\ \A j \in DOMAIN pre[D].outgoing :
                   aut[D].outgoing[j] =
                       SelectSeq(pre[D].outgoing[j],
                                 LAMBDA e : ~(/\ e.aut = last.a
                                              /\ e.bit \in Range
                                              /\ pre[last.a].incoming[e.bit] =
                                                     incoming_t(D, j)))

\* a range of a linked and an unlinked bit was disconnected while another
\* automaton kept a link
C9_Witness ==
    /\ DisconnectSucceeded
    /\ last.num = 2
    /\ \E k \in Range : pre[last.a].incoming[k].aut # NULL
    /\ \E k \in Range : pre[last.a].incoming[k].aut = NULL
    /\ \E D \in Aut \ {last.a} : \E k \in DOMAIN aut[D].incoming :
           aut[D].incoming[k].aut # NULL

\* ------------------------------------------------------------------ C10
SetInputRan == last.op = "set_input" /\ last.ret = 0 /\ ~ub

\* input bit i of automaton a has the same value in heaps g and h
SameInputBit(g, h, a, i) == (i \in g[a].input) <=> (i \in h[a].input)

\* C10: set_input(A, bits) gives every input bit of A without an incoming
\* link the value of bits[i] and leaves every linked input bit, and
\* everything else, as it was; no call but step changes the value of a
\* linked input bit.
C10_SetInputWritesUnlinked ==
    /\ SetInputRan =>
        /\ \A i \in 0..(pre[last.a].n - 1) :
               (i \in aut[last.a].input) <=>
                   IF pre[last.a].incoming[i].aut = NULL
                   THEN i \in last.bits
                   ELSE i \in pre[last.a].input
        /\ aut = [pre EXCEPT ![last.a].input = aut[last.a].input]
    /\ ~ub /\ last.op \notin {"init", "step"} =>
        \A a \in Aut :
            pre[a].live /\ aut[a].live =>
                \A i \in DOMAIN pre[a].incoming :
                    pre[a].incoming[i].aut # NULL => SameInputBit(pre, aut, a, i)

\* a set_input met a linked bit whose value differs from bits[i], which it
\* kept, and an unlinked bit whose value differs from bits[i], which it wrote
C10_Witness ==
    /\ SetInputRan
    /\ \E i \in 0..(pre[last.a].n - 1) :
        /\ pre[last.a].incoming[i].aut # NULL
        /\ (i \in last.bits) # (i \in pre[last.a].input)
        /\ SameInputBit(pre, aut, last.a, i)
    /\ \E i \in 0..(pre[last.a].n - 1) :
        /\ pre[last.a].incoming[i].aut = NULL
        /\ (i \in last.bits) # (i \in pre[last.a].input)
        /\ (i \in aut[last.a].input) <=> (i \in last.bits)

\* ------------------------------------------------------------------ C11
\* C11: a connect in which the allocation of a link record fails returns -1
\* with errno ENOMEM (the bits of the range before the failing one staying
\* linked); stated for what the call returns.
C11_ConnectReportsNoMemory ==
    Connected /\ last.oom /\ ~ub =>
        /\ last.ret = 0 - 1
        /\ last.errno = "ENOMEM"

\* ------------------------------------------------------------------ C13
\* the recorded call is a step that returned 0 with every scratch buffer
\* allocated
StepReturned == last.op = "step" /\ last.ret = 0 /\ ~last.oom /\ ~ub

\* the state of automaton a of heap h one tick later
OneTick(h, a) ==
    {b \in transition_function(h[a].t, Refreshed(h, a), h[a].state, h[a].n, h[a].s) :
        b < h[a].s}

\* C13: after a successful step(list) every automaton of the list has
\* advanced by exactly one tick: its state is its transition callback
\* applied once to the state of before the call, also when the list names
\* an automaton at two positions.
C13_ExactlyOneTick ==
    StepReturned =>
        \A k \in 1..Len(last.list) : aut[last.list[k]].state = OneTick(pre, last.list[k])

\* ------------------------------------------------------------------ C14
\* the array of the recorded step is absent, empty or has an absent entry
StepInvalid ==
    \/ last.list = NOARRAY
    \/ Len(last.list) = 0
    \/ \E k \in 1..Len(last.list) : last.list[k] = NULL

\* C14: a step with an absent array, with count 0 or with an absent entry at
\* any position returns -1 with errno EINVAL and changes no input, state or
\* output buffer, those of the entries before the absent one included.
C14_StepInvalidRejected ==
    last.op = "step" /\ StepInvalid =>
        /\ last.ret = 0 - 1
        /\ last.errno = "EINVAL"
        /\ ~ub
        /\ aut = pre

\* the rejected array has an absent entry behind an automaton whose input a
\* refresh would have changed
C14_Witness ==
    /\ last.op = "step" /\ last.ret = 0 - 1
    /\ last.list # NOARRAY /\ Len(last.list) = 2
    /\ last.list[1] # NULL /\ last.list[2] = NULL
    /\ Refreshed(pre, last.list[1]) # pre[last.list[1]].input
    /\ aut = pre

\* ------------------------------------------------------------------ C17
\* automaton a of heap h has the identity as its output function
Simple(h, a) == h[a].live /\ h[a].y = "identity_function"

\* C17: an automaton made by create_simple(n, m, t) has m state bits, its
\* state and output are zero right after the creation, and after any
\* set_state and step its output bits 0..m-1 are its state bits 0..m-1 and
\* the tail of its output is zero.
C17_SimpleOutputIsState ==
    /\ \A a \in Aut :
           Simple(aut, a) =>
               /\ aut[a].s = aut[a].m
               /\ aut[a].output = {b \in aut[a].state : b < aut[a].m}
    /\ last.op = "create_simple" /\ last.ret # NULL =>
           /\ aut[last.ret].s = last.m
           /\ aut[last.ret].state = {}
           /\ aut[last.ret].output = {}

\* a set_state has stored a state with a 1 in its tail and a 1 below it
C17_Witness ==
    /\ last.op = "set_state" /\ last.ret = 0
    /\ Simple(aut, last.a)
    /\ \E b \in aut[last.a].state : b >= aut[last.a].m
    /\ aut[last.a].output # {}

\* ------------------------------------------------------------------ C18
\* C18: after every operation the bits of the state buffer at or above the
\* state count and the bits of the input buffer at or above the input
\* count are 0, also when the bits given to set_state have 1s above the
\* state count.
C18_StateAndInputTailsZero ==
    \A a \in Aut :
        aut[a].live =>
            /\ \A b \in aut[a].state : b < aut[a].s
            /\ \A b \in aut[a].input : b < aut[a].n

\* ------------------------------------------------------------------ C20
\* the arrays that are permutations of array at
Reorderings(at) ==
    {[k \in 1..Len(at) |-> at[p[k]]] :
        p \in {q \in [1..Len(at) -> 1..Len(at)] :
                  \A k1 \in 1..Len(at), k2 \in 1..Len(at) : q[k1] = q[k2] => k1 = k2}}

\* C20: a step on any permutation of the array, started from the same
\* heap, ends with the same input, state and output buffers of every
\* automaton.
C20_StepOrderIndependent ==
    StepReturned =>
        \A other \in Reorderings(last.list) :
            ma_step(Machine(pre, FALSE, 0), other, Len(other), {}).m.aut = aut

\* a step on two automata, one fed by the other, changed the output of the
\* source and the input of the destination
C20_Witness ==
    /\ StepReturned
    /\ Len(last.list) = 2
    /\ \E A \in Aut, B \in Aut :
        /\ A # B
        /\ last.list = <<A, B>>
        /\ \E i \in DOMAIN pre[B].incoming : pre[B].incoming[i].aut = A
        /\ aut[A].output # pre[A].output
        /\ aut[B].input # pre[B].input

\* ------------------------------------------------------------------ C19
\* the recorded connect or disconnect has its automata present, a count > 0
\* and a start of 2^63 or more, so that start + count exceeds 2^64 - 1
WrappingRange ==
    /\ Connected \/ Disconnected
    /\ last.a # NULL
    /\ Connected => last.b # NULL
    /\ last.num > 0
    /\ last.in < 0 \/ (Connected /\ last.out < 0)

\* C19: connect and disconnect fail with EINVAL and leave the graph as it
\* was for every start and count whose sum as numbers exceeds the signal
\* count, also when the sum modulo 2^64 does not.
C19_WrappedRangeRejected ==
    WrappingRange =>
        /\ last.ret = 0 - 1
        /\ last.errno = "EINVAL"
        /\ ~ub
        /\ aut = pre

\* ------------------------------------------------------------------ C12
\* C12: a step in which the allocation of a scratch state fails returns -1
\* with errno ENOMEM (the automata advanced before keeping their new state
\* and output); stated for what the call returns.
C12_StepReportsNoMemory ==
    last.op = "step" /\ last.oom /\ ~ub =>
        /\ last.ret = 0 - 1
        /\ last.errno = "ENOMEM"

\* ------------------------------------------------------------------ C15
\* C15: output tail masking.  After every operation the bits of the output
\* buffer at or above the output count are 0, whatever the output callback
\* writes there.
C15_OutputTailZero ==
    \A a \in Aut : aut[a].live => \A b \in aut[a].output : b < aut[a].m

\* ------------------------------------------------------------------ C16
CreatedFull == last.op = "create_full" /\ last.ret # NULL /\ ~ub

\* C16: after a successful create_full(n, m, s, t, y, q), get_output
\* returns y applied to q; the state is q as given, no transition having
\* been applied, the input is zero, the automaton has no links and the
\* other automata are as they were.
C16_CreateFullOutput ==
    CreatedFull =>
        LET a == last.ret
            blocks == (last.s + FILL_THE_BLOCK) \div BITS_PER_BLOCK
            q == memcpy({}, last.bits, blocks)
        IN  /\ ma_get_output(Cur, a).ret = output_function(last.y, {}, q, last.m, last.s).output
            /\ aut[a].state = q
            /\ aut[a].input = {}
            /\ aut[a].n = last.n /\ aut[a].m = last.m /\ aut[a].s = last.s
            /\ aut[a].t = last.t /\ aut[a].y = last.y
            /\ \A i \in DOMAIN aut[a].incoming : aut[a].incoming[i] = NoLink
            /\ \A j \in DOMAIN aut[a].outgoing : aut[a].outgoing[j] = <<>>
            /\ aut = [pre EXCEPT ![a] = aut[a]]

\* an automaton with an input was made with a state of a 1 that its output
\* callback copied, beside another automaton
C16_Witness ==
    /\ CreatedFull
    /\ last.y = "y_copy" /\ last.n > 0
    /\ 0 \in last.bits
    /\ 0 \in aut[last.ret].output
    /\ \E b \in Aut \ {last.ret} : aut[b].live

\* ------------------------------------------------------------------ C21
\* C21: input refresh in step.  After a step that returned 0, every input
\* bit of a listed automaton that has no incoming link holds the value it
\* had before the call, and every linked input bit holds the output bit its
\* source had before the call, also when the source is not in the list.
C21_StepRefreshesInputs ==
    StepReturned =>
        \A k \in 1..Len(last.list) :
            LET a == last.list[k]
            IN  \A i \in 0..(pre[a].n - 1) :
                    IF pre[a].incoming[i].aut = NULL
                    THEN SameInputBit(pre, aut, a, i)
                    ELSE (i \in aut[a].input) <=>
                         (pre[a].incoming[i].bit \in pre[pre[a].incoming[i].aut].output)

\* the step was on one automaton only; it kept a 1 in an input bit that has
\* no link and took a 1 into a linked bit that held 0 from a source that is
\* not in the list
C21_Witness ==
    /\ StepReturned
    /\ Len(last.list) = 1
    /\ LET a == last.list[1]
       IN  \E i \in 0..(pre[a].n - 1), l \in 0..(pre[a].n - 1) :
            /\ pre[a].incoming[i].aut = NULL
            /\ i \in pre[a].input /\ i \in aut[a].input
            /\ pre[a].incoming[l].aut \notin {NULL, a}
            /\ l \notin pre[a].input /\ l \in aut[a].input

\* ------------------------------------------------------------------ C22
\* output bits 0..m-1 of automaton a of heap h are what its output callback
\* makes of its state buffer
OutputOfState(h, a) ==
    LET out == output_function(h[a].y, h[a].output, h[a].state, h[a].m, h[a].s).output
    IN  \A b \in 0..(h[a].m - 1) : (b \in h[a].output) <=> (b \in out)

\* C22: Moore output invariant.  In every state reached by calls of the
\* interface in which no allocation failed, output bits 0..m-1 of every
\* automaton are its output callback applied to its state buffer: create,
\* set_state and step leave no state without its output.
C22_OutputFollowsState ==
    ooms = 0 /\ ~ub => \A a \in Aut : aut[a].live => OutputOfState(aut, a)

\* a step has changed the state of an automaton whose output callback
\* copies the state, and its output with it
C22_Witness ==
    /\ StepReturned /\ ooms = 0
    /\ \E k \in 1..Len(last.list) :
        LET a == last.list[k]
        IN  /\ aut[a].y = "y_copy"
            /\ aut[a].state # pre[a].state
            /\ aut[a].output # pre[a].output
            /\ OutputOfState(aut, a)

\* ------------------------------------------------------------------ C23
\* the automata named in the array of the recorded step
Listed == {last.list[k] : k \in 1..Len(last.list)}

\* C23: frame of step.  A step changes no incoming slot and no outgoing
\* list of any automaton, and nothing of an automaton that is not in the
\* array: its input, state and output buffers are as before the call, also
\* when its inputs are linked to outputs of automata of the array.
C23_StepFrame ==
    last.op = "step" /\ ~ub =>
        \A a \in Aut :
            /\ aut[a] = [pre[a] EXCEPT !.input = aut[a].input,
                                       !.state = aut[a].state,
                                       !.output = aut[a].output]
            /\ a \notin Listed => aut[a] = pre[a]

\* the step was on A alone and changed A's output bit, which feeds an input
\* bit of B; B's input bit still holds the old value
C23_Witness ==
    /\ StepReturned
    /\ Len(last.list) = 1
    /\ \E B \in Aut \ Listed :
        LET A == last.list[1]
        IN  /\ pre[B].live
            /\ \E i \in 0..(pre[B].n - 1) :
                /\ pre[B].incoming[i].aut = A
                /\ LET j == pre[B].incoming[i].bit
                   IN  /\ (j \in aut[A].output) # (j \in pre[A].output)
                       /\ (i \in aut[B].input) # (j \in aut[A].output)
            /\ aut[B] = pre[B]

\* ------------------------------------------------------------------ C24
\* the recorded call is a connect, a disconnect or a delete
Wiring == last.op \in {"connect", "disconnect", "delete"}

\* C24: frame of wiring.  A connect, a disconnect or a delete changes no
\* bit of the input, state or output buffer of an automaton that survives
\* the call, so an input bit whose link is made, replaced or removed (by the
\* deletion of its source too) keeps the value it held; only set_input and
\* step write the input of an automaton.
C24_WiringFrame ==
    /\ Wiring /\ ~ub =>
        \A a \in Aut :
            aut[a].live =>
                /\ aut[a].input = pre[a].input
                /\ aut[a].state = pre[a].state
                /\ aut[a].output = pre[a].output
    /\ last.op \notin {"init", "set_input", "step"} /\ ~ub =>
        \A a \in Aut : pre[a].live /\ aut[a].live => aut[a].input = pre[a].input

\* the source of a linked input bit that holds 1 was deleted: the slot is
\* empty and the bit still holds 1
C24_Witness ==
    /\ Deleted /\ ~ub
    /\ \E D \in Aut \ {last.a} :
       \E i \in 0..(pre[D].n - 1) :
        /\ pre[D].live /\ aut[D].live
        /\ pre[D].incoming[i].aut = last.a
        /\ aut[D].incoming[i] = NoLink
        /\ i \in pre[D].input /\ i \in aut[D].input

\* ------------------------------------------------------------------ C25
\* the chains of heap h: arrays c of two or more distinct simple automata
\* of one input and one output that copy the input, c[1] with no link on
\* its input and c[i + 1] fed by the output of c[i]
Chains(h) ==
    {c \in UNION {[1..k -> Aut] : k \in 2..MaxAut} :
        /\ \A k1 \in 1..Len(c), k2 \in 1..Len(c) : c[k1] = c[k2] => k1 = k2
        /\ \A i \in 1..Len(c) :
            /\ Simple(h, c[i])
            /\ h[c[i]].n = 1 /\ h[c[i]].m = 1 /\ h[c[i]].t = "t_copy"
            /\ h[c[i]].incoming[0] =
                   IF i = 1 THEN NoLink ELSE incoming_t(c[i - 1], 0)}

\* the input of c[1] holds 1, the outputs of c[1]..c[j] are 1 and those
\* of the rest of the chain are 0
ChainAt(h, c, j) ==
    /\ h[c[1]].input = {0}
    /\ \A i \in 1..Len(c) : h[c[i]].output = IF i <= j THEN {0} ELSE {}

\* the heaps r steps on the chain, each in any order, lead to from those of H
RECURSIVE AfterSteps(_, _, _)
AfterSteps(H, c, r) ==
    IF r = 0 THEN H
    ELSE AfterSteps({ma_step(Machine(h, FALSE, 0), o, Len(o), {}).m.aut :
                         h \in H, o \in Reorderings(c)},
                    c, r - 1)

\* the recorded call is the first step on a chain whose outputs were all 0,
\* with the automata of the chain in any order
FirstChainStep(c) ==
    /\ StepReturned
    /\ c \in Chains(pre)
    /\ ChainAt(pre, c, 0)
    /\ last.list \in Reorderings(c)

\* C25: one hop per tick.  In a chain of k simple automata of width 1 that
\* copy their input, all at 0 and the free input of the first at 1, stepped
\* together in any order, after j steps (1 <= j <= k) the outputs of the
\* first j automata are 1 and the others are still 0: the value is at the
\* output of the last after k steps and not before.
C25_OneHopPerTick ==
    \A c \in UNION {[1..k -> Aut] : k \in 2..MaxAut} :
        FirstChainStep(c) =>
            \A j \in 1..Len(c) :
                \A h \in AfterSteps({aut}, c, j - 1) : ChainAt(h, c, j)

\* the first step on a chain, the last automaton first in the array, has
\* brought the 1 to the first output only, and the second step brings it on
C25_Witness ==
    \E c \in Chains(pre) :
        /\ FirstChainStep(c)
        /\ last.list[1] = c[Len(c)]
        /\ ChainAt(aut, c, 1)
        /\ aut[c[2]].output = {}
        /\ \A h \in AfterSteps({aut}, c, 1) : h[c[2]].output = {0}

====
